---- MODULE Spec2Model ----
(***************************************************************************)
(* Words in Swedenborg: the glossary data model (src/src/glossary_entry.py),*)
(* the AsciiDoc renderer (src/src/json_to_adoc.py) and the word lists      *)
(* (src/src/generate_word_lists.py).                                       *)
(*                                                                         *)
(* A Python str is a sequence of one-character strings; an Optional[...]   *)
(* value is None == <<>> or Some(v) == <<v>>; a dict is kept in insertion  *)
(* order.                                                                  *)
(***************************************************************************)
EXTENDS Integers, Sequences, FiniteSets, TLC

VARIABLES entries, by_word, children, call, arg, ret

vars == <<entries, by_word, children, call, arg, ret>>

(***************************************************************************)
(* Bounds of the model.                                                    *)
(***************************************************************************)
MaxEntries == 2
MaxKeyLen == 3
MaxDefs == 2
MaxRefs == 2
MaxTextLen == 7
MaxWords == 9

(***************************************************************************)
(* Optional values.                                                        *)
(***************************************************************************)
None == <<>>
Some(v) == <<v>>
IsNone(o) == o = <<>>
Val(o) == o[1]

\* Python truthiness of an Optional[str]: None and '' are false.
Truthy(o) == (~IsNone(o)) /\ Val(o) # <<>>

(***************************************************************************)
(* Python str operations.                                                  *)
(***************************************************************************)
LowerChar(c) ==
    CASE c = "A" -> "a" [] c = "B" -> "b" [] c = "C" -> "c" [] c = "D" -> "d"
      [] c = "L" -> "l" [] c = "R" -> "r" [] c = "V" -> "v" [] c = "X" -> "x"
      [] c = "Y" -> "y" [] OTHER -> c

UpperChar(c) ==
    CASE c = "a" -> "A" [] c = "b" -> "B" [] c = "c" -> "C" [] c = "d" -> "D"
      [] c = "l" -> "L" [] c = "r" -> "R" [] c = "v" -> "V" [] c = "x" -> "X"
      [] c = "y" -> "Y" [] OTHER -> c

\* ord(c) of the characters the model uses.
Ord(c) ==
    CASE c = " " -> 32 [] c = "*" -> 42 [] c = "-" -> 45 [] c = "." -> 46
      [] c = "A" -> 65 [] c = "B" -> 66 [] c = "C" -> 67 [] c = "D" -> 68
      [] c = "L" -> 76 [] c = "R" -> 82 [] c = "V" -> 86 [] c = "X" -> 88
      [] c = "Y" -> 89 [] c = "_" -> 95
      [] c = "a" -> 97 [] c = "b" -> 98 [] c = "c" -> 99 [] c = "d" -> 100
      [] c = "l" -> 108 [] c = "r" -> 114 [] c = "v" -> 118 [] c = "x" -> 120
      [] c = "y" -> 121 [] c = "|" -> 124 [] OTHER -> 0

StrLower(s) == [i \in 1..Len(s) |-> LowerChar(s[i])]

StrUpper(s) == [i \in 1..Len(s) |-> UpperChar(s[i])]

StrReplace(s, old, new) == [i \in 1..Len(s) |-> IF s[i] = old THEN new ELSE s[i]]

IsSpace(c) == c \in {" ", "\n", "\t"}

RECURSIVE LStrip(_)
LStrip(s) == IF s # <<>> /\ IsSpace(Head(s)) THEN LStrip(Tail(s)) ELSE s

RECURSIVE RStrip(_)
RStrip(s) ==
    IF s # <<>> /\ IsSpace(s[Len(s)]) THEN RStrip(SubSeq(s, 1, Len(s) - 1)) ELSE s

StrStrip(s) == RStrip(LStrip(s))

\* s < t for two str: lexicographic by code point.
RECURSIVE StrLess(_, _)
StrLess(s, t) ==
    IF t = <<>> THEN FALSE
    ELSE IF s = <<>> THEN TRUE
    ELSE IF Ord(Head(s)) # Ord(Head(t)) THEN Ord(Head(s)) < Ord(Head(t))
    ELSE StrLess(Tail(s), Tail(t))

\* sep.join(parts)
RECURSIVE StrJoin(_, _)
StrJoin(sep, parts) ==
    IF parts = <<>> THEN <<>>
    ELSE IF Len(parts) = 1 THEN parts[1]
    ELSE parts[1] \o sep \o StrJoin(sep, Tail(parts))

(***************************************************************************)
(* glossary_entry.py: slugs and entries.                                   *)
(***************************************************************************)
to_slug(word) == StrReplace(StrStrip(StrLower(word)), " ", "-")

slug_to_word(slug) == StrReplace(slug, "-", " ")

\* GlossaryEntry.from_dict: data is a parsed JSON object whose absent keys
\* are None; the caller has checked that 'definitions' is there.
from_dict(slug, data) ==
    [word             |-> IF IsNone(data.word) THEN slug_to_word(slug) ELSE Val(data.word),
     slug             |-> slug,
     definitions      |-> Val(data.definitions),
     origin           |-> data.origin,
     latin_word       |-> data.latin_word,
     part_of_speech   |-> data.part_of_speech,
     pronunciation    |-> data.pronunciation,
     plural           |-> data.plural,
     archaic_usage    |-> data.archaic_usage,
     theological_term |-> data.theological_term,
     new_word         |-> IF IsNone(data.new_word) THEN FALSE ELSE Val(data.new_word),
     opposite_slug    |-> data.opposite_slug,
     also_translated  |-> IF IsNone(data.also_translated) THEN <<>> ELSE Val(data.also_translated),
     see_also         |-> IF IsNone(data.see_also) THEN <<>> ELSE Val(data.see_also),
     parent           |-> data.parent]

has_origin(e) == ~IsNone(e.origin)
has_plural(e) == ~IsNone(e.plural)
has_opposite(e) == ~IsNone(e.opposite_slug)
has_parent(e) == ~IsNone(e.parent)
has_also_translated(e) == Len(e.also_translated) > 0

(***************************************************************************)
(* Glossary: _entries is the sequence es of entries in insertion order     *)
(* (their slugs are the keys), _by_word and _children are functions.       *)
(***************************************************************************)
EmptyDict == [k \in {} |-> k]

SlugsOf(es) == {es[i].slug : i \in 1..Len(es)}

\* self._entries[slug]
EntryAt(es, slug) == es[CHOOSE i \in 1..Len(es) : es[i].slug = slug]

\* Glossary._build_indexes, the _by_word half: a later entry overwrites.
RECURSIVE BuildByWord(_, _)
BuildByWord(es, n) ==
    IF n = 0 THEN EmptyDict
    ELSE (StrLower(es[n].word) :> es[n]) @@ BuildByWord(es, n - 1)

\* Glossary._build_indexes, the _children half: `if entry.parent:` is a
\* truthiness test, so parent = '' is not indexed.
RECURSIVE BuildChildren(_, _)
BuildChildren(es, n) ==
    IF n = 0 THEN EmptyDict
    ELSE LET prev == BuildChildren(es, n - 1)
             e == es[n]
         IN  IF Truthy(e.parent)
             THEN LET p == Val(e.parent)
                      old == IF p \in DOMAIN prev THEN prev[p] ELSE <<>>
                  IN  (p :> Append(old, e.slug)) @@ prev
             ELSE prev

\* sorted(list, key=lambda e: e.slug): stable insertion sort.
RECURSIVE InsertBySlug(_, _)
InsertBySlug(sorted, e) ==
    IF sorted = <<>> THEN <<e>>
    ELSE IF StrLess(e.slug, Head(sorted).slug) THEN <<e>> \o sorted
    ELSE <<Head(sorted)>> \o InsertBySlug(Tail(sorted), e)

RECURSIVE SortedBySlug(_)
SortedBySlug(es) ==
    IF es = <<>> THEN <<>>
    ELSE InsertBySlug(SortedBySlug(SubSeq(es, 1, Len(es) - 1)), es[Len(es)])

\* Glossary.top_level_entries
top_level_entries(es) == SelectSeq(es, LAMBDA e : ~has_parent(e))

\* Glossary.children_of
children_of(es, ch, slug) ==
    LET child_slugs == IF slug \in DOMAIN ch THEN ch[slug] ELSE <<>>
    IN  [i \in 1..Len(child_slugs) |-> EntryAt(es, child_slugs[i])]

\* iteration in insertion order
iter_unsorted(es) == es

\* Glossary.__iter__
iter(es) == SortedBySlug(es)

\* Results of a call: what it returned or raised.
Returned(kind, v) == [kind |-> kind, val |-> v]
Raised(exc) == [kind |-> "raise", val |-> exc]

\* the word index consulted before the identifiers
getitem_word_first(es, bw, key) ==
    IF StrLower(key) \in DOMAIN bw THEN Returned("entry", bw[StrLower(key)])
    ELSE IF key \in SlugsOf(es) THEN Returned("entry", EntryAt(es, key))
    ELSE IF to_slug(key) \in SlugsOf(es) THEN Returned("entry", EntryAt(es, to_slug(key)))
    ELSE Raised("KeyError")

\* Glossary.__getitem__
getitem(es, bw, key) ==
    IF key \in SlugsOf(es) THEN Returned("entry", EntryAt(es, key))
    ELSE IF StrLower(key) \in DOMAIN bw THEN Returned("entry", bw[StrLower(key)])
    ELSE IF to_slug(key) \in SlugsOf(es) THEN Returned("entry", EntryAt(es, to_slug(key)))
    ELSE Raised("KeyError")

\* membership without the identifier-normalized step
contains_no_normalize(es, bw, key) ==
    IF key \in SlugsOf(es) THEN TRUE
    ELSE StrLower(key) \in DOMAIN bw

\* Glossary.__contains__
contains(es, bw, key) ==
    IF key \in SlugsOf(es) THEN TRUE
    ELSE IF StrLower(key) \in DOMAIN bw THEN TRUE
    ELSE to_slug(key) \in SlugsOf(es)

\* Glossary.get with the default default: try self[key], except KeyError.
get(es, bw, key) ==
    LET r == getitem(es, bw, key)
    IN  IF r.kind = "raise" /\ r.val = "KeyError" THEN Returned("none", "None") ELSE r

(***************************************************************************)
(* json_to_adoc.py: the Markup Rewriter.                                   *)
(***************************************************************************)
\* index of the first c in s at or after position i, 0 when there is none
RECURSIVE FindChar(_, _, _)
FindChar(s, c, i) ==
    IF i > Len(s) THEN 0
    ELSE IF s[i] = c THEN i
    ELSE FindChar(s, c, i + 1)

\* re.match of r'_\|([^|]+)\|_' at position i: the index of the closing
\* pipe, 0 when there is no match.  [^|]+ runs to the next pipe and cannot
\* give characters back, so the match is decided by that pipe alone.
ItalicMatch(s, i) ==
    IF i + 1 <= Len(s) /\ s[i] = "_" /\ s[i + 1] = "|"
    THEN LET j == FindChar(s, "|", i + 2)
         IN  IF j > i + 2 /\ j + 1 <= Len(s) /\ s[j + 1] = "_" THEN j ELSE 0
    ELSE 0

\* re.match of r'\|([^|]+)\|' at position i: the index of the closing pipe
PlainMatch(s, i) ==
    IF i <= Len(s) /\ s[i] = "|"
    THEN LET j == FindChar(s, "|", i + 1)
         IN  IF j > i + 1 THEN j ELSE 0
    ELSE 0

\* italic_keyword_to_bold
italic_keyword_to_bold(term) == <<"_", "*", "*">> \o StrUpper(term) \o <<"*", "*", "_">>

\* keyword_to_bold
keyword_to_bold(term) == <<"*", "*">> \o StrUpper(term) \o <<"*", "*">>

\* re.sub(r'_\|([^|]+)\|_', italic_keyword_to_bold, text): leftmost
\* non-overlapping matches, scanning from position i
RECURSIVE ItalicSub(_, _)
ItalicSub(s, i) ==
    IF i > Len(s) THEN <<>>
    ELSE LET j == ItalicMatch(s, i)
         IN  IF j # 0
             THEN italic_keyword_to_bold(SubSeq(s, i + 2, j - 1)) \o ItalicSub(s, j + 2)
             ELSE <<s[i]>> \o ItalicSub(s, i + 1)

\* re.sub(r'\|([^|]+)\|', keyword_to_bold, text)
RECURSIVE PlainSub(_, _)
PlainSub(s, i) ==
    IF i > Len(s) THEN <<>>
    ELSE LET j == PlainMatch(s, i)
         IN  IF j # 0
             THEN keyword_to_bold(SubSeq(s, i + 1, j - 1)) \o PlainSub(s, j + 1)
             ELSE <<s[i]>> \o PlainSub(s, i + 1)

\* format_text: the italic form, then the plain form
format_text(text) == PlainSub(ItalicSub(text, 1), 1)

(***************************************************************************)
(* json_to_adoc.py: render_entry and render_glossary.                      *)
(***************************************************************************)
\* s.split(c)
RECURSIVE StrSplit(_, _)
StrSplit(s, c) ==
    LET i == FindChar(s, c, 1)
    IN  IF i = 0 THEN <<s>>
        ELSE <<SubSeq(s, 1, i - 1)>> \o StrSplit(SubSeq(s, i + 1, Len(s)), c)

\* str(i) for i >= 0
Digit(d) == <<"0", "1", "2", "3", "4", "5", "6", "7", "8", "9">>[d + 1]

RECURSIVE IntToStr(_)
IntToStr(i) == IF i < 10 THEN <<Digit(i)>> ELSE IntToStr(i \div 10) \o <<Digit(i % 10)>>

\* a Glossary object passed as an argument
GlossaryOf(es, bw, ch) == [entries |-> es, by_word |-> bw, children |-> ch]

\* `if glossary`: None is false, and so is a Glossary whose __len__ is 0
GlossaryTruthy(g) == (~IsNone(g)) /\ Len(Val(g).entries) > 0

\* lines[-1] = lines[-1] + ' +'
Continue(lines) == [lines EXCEPT ![Len(lines)] = @ \o <<" ", "+">>]

\* the pronunciation put before the part of speech
metadata_parts_pronunciation_first(entry) ==
    (IF Truthy(entry.plural) THEN <<<<"(", "p", "l", ".", " ">> \o Val(entry.plural) \o <<")">>>> ELSE <<>>)
    \o (IF Truthy(entry.origin)
        THEN IF Truthy(entry.latin_word)
             THEN <<<<"(">> \o Val(entry.origin) \o <<" ", "_">>
                      \o StrUpper(Val(entry.latin_word)) \o <<"_", ")">>>>
             ELSE <<<<"(">> \o Val(entry.origin) \o <<")">>>>
        ELSE <<>>)
    \o (IF Truthy(entry.pronunciation)
        THEN <<<<"/">> \o Val(entry.pronunciation) \o <<"/">>>> ELSE <<>>)
    \o (IF Truthy(entry.part_of_speech)
        THEN <<<<"(">> \o Val(entry.part_of_speech) \o <<")">>>> ELSE <<>>)
    \o (IF Truthy(entry.archaic_usage) \/ Truthy(entry.theological_term)
        THEN <<<<"[", "m", "i", "s", "l", "e", "a", "d", "i", "n", "g", "]">>>> ELSE <<>>)
    \o (IF entry.new_word THEN <<<<"[", "n", "e", "w", " ", "w", "o", "r", "d", "]">>>> ELSE <<>>)

\* a tag of its own for the theological flag
metadata_parts_two_tags(entry) ==
    (IF Truthy(entry.plural) THEN <<<<"(", "p", "l", ".", " ">> \o Val(entry.plural) \o <<")">>>> ELSE <<>>)
    \o (IF Truthy(entry.origin)
        THEN IF Truthy(entry.latin_word)
             THEN <<<<"(">> \o Val(entry.origin) \o <<" ", "_">>
                      \o StrUpper(Val(entry.latin_word)) \o <<"_", ")">>>>
             ELSE <<<<"(">> \o Val(entry.origin) \o <<")">>>>
        ELSE <<>>)
    \o (IF Truthy(entry.part_of_speech)
        THEN <<<<"(">> \o Val(entry.part_of_speech) \o <<")">>>> ELSE <<>>)
    \o (IF Truthy(entry.pronunciation)
        THEN <<<<"/">> \o Val(entry.pronunciation) \o <<"/">>>> ELSE <<>>)
    \o (IF Truthy(entry.archaic_usage) THEN <<<<"[", "m", "i", "s", "l", "e", "a", "d", "i", "n", "g", "]">>>> ELSE <<>>)
    \o (IF Truthy(entry.theological_term) THEN <<<<"[", "t", "h", "e", "o", "l", "o", "g", "i", "c", "a", "l", "]">>>> ELSE <<>>)
    \o (IF entry.new_word THEN <<<<"[", "n", "e", "w", " ", "w", "o", "r", "d", "]">>>> ELSE <<>>)

\* render_entry, the metadata parts
metadata_parts(entry) ==
    (IF Truthy(entry.plural) THEN <<<<"(", "p", "l", ".", " ">> \o Val(entry.plural) \o <<")">>>> ELSE <<>>)
    \o (IF Truthy(entry.origin)
        THEN IF Truthy(entry.latin_word)
             THEN <<<<"(">> \o Val(entry.origin) \o <<" ", "_">>
                      \o StrUpper(Val(entry.latin_word)) \o <<"_", ")">>>>
             ELSE <<<<"(">> \o Val(entry.origin) \o <<")">>>>
        ELSE <<>>)
    \o (IF Truthy(entry.part_of_speech)
        THEN <<<<"(">> \o Val(entry.part_of_speech) \o <<")">>>> ELSE <<>>)
    \o (IF Truthy(entry.pronunciation)
        THEN <<<<"/">> \o Val(entry.pronunciation) \o <<"/">>>> ELSE <<>>)
    \o (IF Truthy(entry.archaic_usage) \/ Truthy(entry.theological_term)
        THEN <<<<"[", "m", "i", "s", "l", "e", "a", "d", "i", "n", "g", "]">>>> ELSE <<>>)
    \o (IF entry.new_word THEN <<<<"[", "n", "e", "w", " ", "w", "o", "r", "d", "]">>>> ELSE <<>>)

\* the definitions numbered from 0 and the single one not rewritten
definition_lines_raw(entry) ==
    LET word_upper == StrUpper(entry.word)
        metadata_str == StrJoin(<<" ">>, metadata_parts(entry))
        head == IF metadata_str # <<>>
                THEN <<"*", "*">> \o word_upper \o <<"*", "*", " ">> \o metadata_str
                ELSE <<"*", "*">> \o word_upper \o <<"*", "*">>
    IN  IF Len(entry.definitions) = 1
        THEN <<head \o <<" ", "=", " ">> \o entry.definitions[1]>>
        ELSE <<head \o <<" ", "=">>>>
                 \o [i \in 1..Len(entry.definitions) |->
                        IntToStr(i - 1) \o <<".", " ">> \o format_text(entry.definitions[i])]

\* render_entry, the word line and the definitions
definition_lines(entry) ==
    LET word_upper == StrUpper(entry.word)
        metadata_str == StrJoin(<<" ">>, metadata_parts(entry))
        head == IF metadata_str # <<>>
                THEN <<"*", "*">> \o word_upper \o <<"*", "*", " ">> \o metadata_str
                ELSE <<"*", "*">> \o word_upper \o <<"*", "*">>
    IN  IF Len(entry.definitions) = 1
        THEN <<head \o <<" ", "=", " ">> \o format_text(entry.definitions[1])>>
        ELSE <<head \o <<" ", "=">>>>
                 \o [i \in 1..Len(entry.definitions) |->
                        IntToStr(i) \o <<".", " ">> \o format_text(entry.definitions[i])]

\* the humanized identifier without a lookup
ref_word_no_lookup(slug, g) == StrReplace(slug, "-", " ")

\* render_entry, the word shown for a referenced slug
ref_word(slug, g) ==
    LET ref_entry == IF GlossaryTruthy(g)
                     THEN get(Val(g).entries, Val(g).by_word, slug)
                     ELSE Returned("none", "None")
    IN  IF ref_entry.kind = "entry" THEN ref_entry.val.word
        ELSE StrReplace(slug, "-", " ")

\* render_entry, the opposite
opposite_lines(entry, g, lines) ==
    IF has_opposite(entry)
    THEN Append(Continue(lines),
                <<"O", "p", "p", ".", " ", "*", "*">> \o StrUpper(ref_word(Val(entry.opposite_slug), g)) \o <<"*", "*">>)
    ELSE lines

\* render_entry, the alternative translations
also_translated_lines(entry, lines) ==
    IF has_also_translated(entry)
    THEN LET alt_words == StrJoin(<<" ", "a", "n", "d", " ">>,
                 [i \in 1..Len(entry.also_translated) |->
                     <<"*", "*">> \o StrUpper(entry.also_translated[i]) \o <<"*", "*">>])
         IN  Append(Continue(lines), <<"(", "a", "l", "s", "o", " ", "t", "r", "a", "n", "s", "l", ".", " ">> \o alt_words \o <<")">>)
    ELSE lines

\* render_entry, the cross-references
see_also_lines(entry, g, lines) ==
    IF Len(entry.see_also) > 0
    THEN LET see_also_refs == [i \in 1..Len(entry.see_also) |->
                 <<"x", "r", "e", "f", ":">> \o entry.see_also[i] \o <<"[", "*", "*">>
                     \o StrUpper(ref_word(entry.see_also[i], g)) \o <<"*", "*", "]">>]
         IN  Append(Continue(lines), <<"S", "e", "e", " ", "a", "l", "s", "o", ":", " ">> \o StrJoin(<<",", " ">>, see_also_refs))
    ELSE lines

\* the child lines added with no indentation unit
indent_child_flat(child_content, lines) ==
    LET split == StrSplit(child_content, "\n")
        kept == SelectSeq(split, LAMBDA line : StrStrip(line) # <<>>)
    IN  IF kept # <<>> /\ lines # <<>>
        THEN Continue(lines) \o kept
        ELSE lines \o kept

\* render_entry, the lines of one rendered child added to lines
indent_child(child_content, lines) ==
    LET split == StrSplit(child_content, "\n")
        kept == SelectSeq(split, LAMBDA line : StrStrip(line) # <<>>)
        indented_lines == [i \in 1..Len(kept) |-> <<"{", "n", "b", "s", "p", "}", "{", "n", "b", "s", "p", "}">> \o kept[i]]
    IN  IF indented_lines # <<>> /\ lines # <<>>
        THEN Continue(lines) \o indented_lines
        ELSE lines \o indented_lines

\* render_entry(entry, glossary).  The descent through children_of has no
\* bound of its own: a descent deeper than the number of entries has met an
\* entry twice and goes on until the interpreter raises RecursionError.
RECURSIVE render_entry(_, _, _)
RECURSIVE render_children(_, _, _, _, _)
render_children(kids, k, g, depth, lines) ==
    IF k > Len(kids) THEN Returned("lines", lines)
    ELSE LET child == render_entry(kids[k], g, depth + 1)
         IN  IF child.kind = "raise" THEN child
             ELSE render_children(kids, k + 1, g, depth, indent_child(child.val, lines))

render_entry(entry, g, depth) ==
    IF GlossaryTruthy(g) /\ depth > Len(Val(g).entries) THEN Raised("RecursionError")
    ELSE LET own == see_also_lines(entry, g,
                        also_translated_lines(entry,
                            opposite_lines(entry, g,
                                <<<<"[", "[">> \o entry.slug \o <<"]", "]">>>> \o definition_lines(entry))))
             all == IF GlossaryTruthy(g)
                    THEN render_children(
                             children_of(Val(g).entries, Val(g).children, entry.slug),
                             1, g, depth, own)
                    ELSE Returned("lines", own)
         IN  IF all.kind = "raise" THEN all
             ELSE Returned("text", StrJoin(<<"\n">>, all.val))

\* render_glossary, the loop over the sorted top-level entries: lines so far
\* and current_letter (None before the first entry)
RECURSIVE render_sections(_, _, _, _, _)
render_sections(sorted, k, g, current_letter, lines) ==
    IF k > Len(sorted) THEN Returned("text", StrJoin(<<"\n">>, lines))
    ELSE LET entry == sorted[k]
         IN  IF entry.word = <<>> THEN Raised("IndexError")
             ELSE LET first_letter == UpperChar(entry.word[1])
                      headed == IF current_letter # Some(first_letter)
                                THEN (IF IsNone(current_letter) THEN lines
                                      ELSE Append(lines, <<>>))
                                         \o <<<<"=", "=", " ">> \o <<first_letter>>, <<>>>>
                                ELSE lines
                      block == render_entry(entry, Some(g), 0)
                  IN  IF block.kind = "raise" THEN block
                      ELSE render_sections(sorted, k + 1, g, Some(first_letter),
                                           headed \o <<block.val, <<>>>>)

\* the top-level entries taken in load order
render_glossary_unsorted(g) ==
    render_sections(top_level_entries(g.entries), 1, g, None, <<>>)

\* render_glossary
render_glossary(g) ==
    render_sections(SortedBySlug(top_level_entries(g.entries)), 1, g, None, <<>>)

(***************************************************************************)
(* generate_word_lists.py: the word lists and their tables.                *)
(***************************************************************************)
\* sorted(set(words)): every word once, ascending
RECURSIVE InsertWord(_, _)
InsertWord(sorted, w) ==
    IF sorted = <<>> THEN <<w>>
    ELSE IF w = Head(sorted) THEN sorted
    ELSE IF StrLess(w, Head(sorted)) THEN <<w>> \o sorted
    ELSE <<Head(sorted)>> \o InsertWord(Tail(sorted), w)

RECURSIVE sorted_set(_)
sorted_set(words) ==
    IF words = <<>> THEN <<>>
    ELSE InsertWord(sorted_set(SubSeq(words, 1, Len(words) - 1)), words[Len(words)])

\* the words list of the get_*_words loops: entry.word.upper() of the picked
\* entries, in iteration order
upper_words(picked) == [i \in 1..Len(picked) |-> StrUpper(picked[i].word)]

\* the words of the flagged entries as the loop collected them
get_new_words_listed(es) ==
    upper_words(SelectSeq(iter(es), LAMBDA entry : entry.new_word))

\* get_new_words
get_new_words(es) ==
    sorted_set(upper_words(SelectSeq(iter(es), LAMBDA entry : entry.new_word)))

\* get_theological_words
get_theological_words(es) ==
    sorted_set(upper_words(SelectSeq(iter(es), LAMBDA entry : Truthy(entry.theological_term))))

\* get_archaic_words
get_archaic_words(es) ==
    sorted_set(upper_words(SelectSeq(iter(es), LAMBDA entry : Truthy(entry.archaic_usage))))

\* a row left as the slice gave it
pad_row_none(row_words, columns) == row_words

\* format_archaic_words, `while len(row_words) < columns: row_words.append('')`
pad_row(row_words, columns) ==
    row_words \o [k \in 1..(columns - Len(row_words)) |-> <<>>]

\* format_archaic_words, the loop over range(0, len(words), columns); i is
\* the position of the first word of the row (from 1)
RECURSIVE format_archaic_rows(_, _, _, _)
format_archaic_rows(words, columns, i, lines) ==
    IF i > Len(words) THEN lines
    ELSE LET last == IF i + columns - 1 < Len(words) THEN i + columns - 1 ELSE Len(words)
             row_words == pad_row(SubSeq(words, i, last), columns)
             row == <<"|">> \o StrJoin(<<" ", "|">>, row_words)
         IN  format_archaic_rows(words, columns, i + columns, Append(lines, row))

\* format_archaic_words(words, columns)
format_archaic_words(words, columns) ==
    IF words = <<>> THEN <<>>
    ELSE StrJoin(<<"\n">>,
             Append(format_archaic_rows(words, columns, 1,
                        <<<<"[", "c", "o", "l", "s", "=", "\"", "1", ",", "1", ",", "1", ",", "1", "\"", ",", " ", "f", "r", "a", "m", "e", "=", "n", "o", "n", "e", ",", " ", "g", "r", "i", "d", "=", "n", "o", "n", "e", "]">>, <<"|", "=", "=", "=">>>>),
                    <<"|", "=", "=", "=">>))

ARCHAIC_WORDS_HEADER ==
    <<"=", "=", " ", "A", "r", "c", "h", "a", "i", "c", " ", "W", "o", "r", "d", "s", "\n", "\n", "S", "o", "m", "e", " ", "w", "o", "r", "d", "s", " ", "a", "r", "e", " ", "u", "s", "e", "d", " ", "i", "n", " ", "a", "n", " ", "o", "l", "d", "e", "r", " ", "s", "e", "n", "s", "e", " ", "t", "h", "a", "t", " ", "d", "i", "f", "f", "e", "r", "s", " ", "f", "r", "o", "m", " ", "m", "o", "d", "e", "r", "n", " ", "u", "s", "a", "g", "e", ".", " ", "H", "e", "r", "e", " ", "a", "r", "e", " ", "s", "o", "m", "e", " ", "o", "f", " ", "t", "h", "e", "m", ":", "\n", "\n", "/", "/", " ", "G", "e", "n", "e", "r", "a", "t", "e", "d", " ", "f", "r", "o", "m", " ", "s", "w", "e", "d", "e", "n", "b", "o", "r", "g", "-", "g", "l", "o", "s", "s", "a", "r", "y", ".", "j", "s", "o", "n", " ", "-", " ", "d", "o", " ", "n", "o", "t", " ", "e", "d", "i", "t", " ", "b", "e", "l", "o", "w", " ", "t", "h", "i", "s", " ", "l", "i", "n", "e", "\n">>

\* generate_archaic_words_adoc
generate_archaic_words_adoc(es) ==
    ARCHAIC_WORDS_HEADER \o format_archaic_words(get_archaic_words(es), 4) \o <<"\n">>

(***************************************************************************)
(* Inputs: parsed JSON objects (data['entries'] is a dict, so its keys are *)
(* distinct), lookup keys and texts.                                       *)
(***************************************************************************)
BaseData ==
    [word |-> None, definitions |-> Some(<<<<"d">>>>), origin |-> None,
     latin_word |-> None, part_of_speech |-> None, pronunciation |-> None,
     plural |-> None, archaic_usage |-> None, theological_term |-> None,
     new_word |-> None, opposite_slug |-> None, also_translated |-> None,
     see_also |-> None, parent |-> None]

\* dicts of at most n items with keys in slugs and values in datas
ItemSeqs(slugs, datas, n) ==
    UNION {{items \in [1..k -> slugs \X datas] :
              \A i, j \in 1..k : items[i][1] = items[j][1] => i = j} : k \in 0..n}

RECURSIVE StringsUpTo(_, _)
StringsUpTo(alphabet, n) ==
    IF n = 0 THEN {<<>>}
    ELSE LET shorter == StringsUpTo(alphabet, n - 1)
         IN  shorter \cup {Append(s, c) : s \in shorter, c \in alphabet}

\* lists of at most n elements of pool
RECURSIVE ListsUpTo(_, _)
ListsUpTo(pool, n) ==
    IF n = 0 THEN {<<>>}
    ELSE LET shorter == ListsUpTo(pool, n - 1)
         IN  shorter \cup {Append(s, x) : s \in shorter, x \in pool}

\* glossaries for the lookups: words that are identifiers of other entries,
\* that differ in case, and identifiers that are not the slug of the word
LookupSlugs == {<<"a">>, <<"a", "-", "a">>, <<"a", "a">>}

LookupDatas == {[BaseData EXCEPT !.word = w] : w \in {None, Some(<<"a">>), Some(<<"A">>)}}

KeyAlphabet == {"a", "A", " ", "-"}

Keys == StringsUpTo(KeyAlphabet, MaxKeyLen)

\* glossaries with a hierarchy: parents that are loaded or not, that are
\* empty, the entry itself or its own child, and words whose first letter
\* is not the slug's
TreeSlugs == {<<"a">>, <<"b">>, <<"c">>}

TreeDatas ==
    {[BaseData EXCEPT !.word = w, !.parent = p] :
        w \in {None, Some(<<"c">>)},
        p \in {None, Some(<<>>), Some(<<"a">>), Some(<<"b">>)}}

ParentKeys == {<<>>, <<"a">>, <<"b">>, <<"d">>}

\* one entry with every combination of the metadata fields
MetaDatas ==
    {[BaseData EXCEPT !.plural = pl, !.origin = orig, !.latin_word = lw,
                      !.part_of_speech = pos, !.pronunciation = pron,
                      !.archaic_usage = arch, !.theological_term = theo,
                      !.new_word = nw] :
        pl \in {None, Some(<<>>), Some(<<"x">>)},
        orig \in {None, Some(<<>>), Some(<<"L", ".">>)},
        lw \in {None, Some(<<"v">>)},
        pos \in {None, Some(<<"n", ".">>)},
        pron \in {None, Some(<<"c">>)},
        arch \in {None, Some(<<>>), Some(<<"y">>)},
        theo \in {None, Some(<<"y">>), Some(<<"y", "y">>)},
        nw \in {None, Some(TRUE)}}

\* one entry with every list of definitions, with and without a line after
DefPool == {<<"d">>, <<"_", "|", "a", "|", "_">>, <<"x", " ", "|", "b", "|">>}

DefsDatas ==
    {[BaseData EXCEPT !.definitions = Some(defs), !.plural = pl, !.opposite_slug = opp] :
        defs \in ListsUpTo(DefPool, MaxDefs),
        pl \in {None, Some(<<"x">>)},
        opp \in {None, Some(<<"b">>)}}

\* an entry x with references, alone or with one entry they may find
RefPool == {<<"a">>, <<"A">>, <<"b", "-", "b">>}

RefsDatas ==
    {[BaseData EXCEPT !.opposite_slug = opp, !.also_translated = alt, !.see_also = see] :
        opp \in {None, Some(<<>>)} \cup {Some(r) : r \in RefPool},
        alt \in {None, Some(<<<<"b">>>>), Some(<<<<"b">>, <<"c">>>>)},
        see \in {None} \cup {Some(refs) : refs \in ListsUpTo(RefPool, MaxRefs)}}

RefTargets ==
    {<<<<"a">>, BaseData>>,
     <<<<"a">>, [BaseData EXCEPT !.word = Some(<<"c", " ", "d">>)]>>,
     <<<<"c">>, [BaseData EXCEPT !.word = Some(<<"A">>)]>>}

RefsItems ==
    UNION {{<< <<<<"x">>, d>> >>}
               \cup {<< <<<<"x">>, d>>, t >> : t \in RefTargets}
               \cup {<< t, <<<<"x">>, d>> >> : t \in RefTargets} : d \in RefsDatas}

\* a hierarchy of two levels below a: two children of a in either load order,
\* one of them with a child of its own; a with one or two definitions
HierarchyRecords ==
    {<<<<"a">>, [BaseData EXCEPT !.definitions = Some(defs)]>> :
         defs \in {<<<<"d">>>>, <<<<"d">>, <<"x", " ", "|", "b", "|">>>>}}
    \cup {<<<<"b">>, [BaseData EXCEPT !.parent = Some(<<"a">>)]>>,
          <<<<"c">>, [BaseData EXCEPT !.parent = Some(<<"b">>)]>>,
          <<<<"d">>, [BaseData EXCEPT !.parent = Some(<<"a">>)]>>}

\* every load order of the whole hierarchy
HierarchyItems ==
    LET n == Cardinality({record[1] : record \in HierarchyRecords})
    IN  {items \in [1..n -> HierarchyRecords] :
            \A i, j \in 1..n : items[i][1] = items[j][1] => i = j}

\* raw records as they come from the file: with and without the required
\* 'definitions', and with a word that is not the one of the identifier
RawSlugs == {<<"a">>, <<"b">>, <<"c">>}

RawDatas ==
    {[BaseData EXCEPT !.definitions = defs, !.word = w] :
        defs \in {None, Some(<<>>), Some(<<<<"d">>>>)},
        w \in {None, Some(<<"b">>)}}

\* glossaries for the word lists: every combination of the three flags, two
\* entries with the same uppercased word, and words whose order is not that
\* of their identifiers
WordSlugs == {<<"a">>, <<"b">>, <<"c">>}

WordDatas ==
    {[BaseData EXCEPT !.word = w, !.new_word = nw, !.archaic_usage = arch,
                      !.theological_term = theo] :
        w \in {None, Some(<<"A">>)},
        nw \in {None, Some(TRUE)},
        arch \in {None, Some(<<"y">>)},
        theo \in {None, Some(<<"y">>)}}

\* word lists for the table, in any order and with repetitions
WordPool == {<<"A">>, <<"B">>}

WordLists == ListsUpTo(WordPool, MaxWords)

\* a top-level entry whose identifier is the empty string, and an entry that
\* names it as parent, in either load order
EmptySlugItems ==
    LET top == <<<<>>, [BaseData EXCEPT !.word = Some(<<"c">>)]>>
        below == <<<<"b">>, [BaseData EXCEPT !.parent = Some(<<>>)]>>
    IN  {<<top, below>>, <<below, top>>}

TextAlphabet == {"a", "_", "|"}

Texts == StringsUpTo(TextAlphabet, MaxTextLen)

(***************************************************************************)
(* The state machine: a Glossary and the last call made on it.             *)
(***************************************************************************)
\* Glossary() with no entries
Init ==
    /\ entries = <<>>
    /\ by_word = EmptyDict
    /\ children = EmptyDict
    /\ call = "Glossary"
    /\ arg = <<>>
    /\ ret = Returned("glossary", "Glossary")

\* A Glossary exists and the previous call on it has returned.
Ready ==
    \/ call = "Glossary"
    \/ call = "from_json_string" /\ ret.kind = "glossary"
    \/ call = "return"

\* the records without 'definitions' left out instead of raising
load_entries_skipping(items) ==
    LET kept == SelectSeq(items, LAMBDA item : ~IsNone(item[2].definitions))
    IN  Returned("entries", [i \in 1..Len(kept) |-> from_dict(kept[i][1], kept[i][2])])

\* the dict comprehension of from_json_string / from_json_file: from_dict on
\* every item in order; data['definitions'] raises KeyError when the key is
\* absent, and the comprehension is abandoned.
load_entries(items) ==
    IF \E i \in 1..Len(items) : IsNone(items[i][2].definitions)
    THEN Raised("KeyError")
    ELSE Returned("entries", [i \in 1..Len(items) |-> from_dict(items[i][1], items[i][2])])

\* Glossary.from_json_string / from_json_file after json.loads.  With
\* validate, validate_glossary_data runs first; the schema file it reads is
\* outside the program, so jsonschema.validate may raise or pass on any data.
\* Then the entries are made, and Glossary.__init__ and _build_indexes run
\* only when all of them were.
from_json(items, validate) ==
    /\ call = "Glossary"
    /\ call' = "from_json_string"
    /\ arg' = [items |-> items, validate |-> validate]
    /\ \E rejected \in (IF validate THEN BOOLEAN ELSE {FALSE}) :
        LET loaded == load_entries(items)
        IN  IF rejected
            THEN /\ ret' = Raised("ValidationError")
                 /\ UNCHANGED <<entries, by_word, children>>
            ELSE IF loaded.kind = "raise"
            THEN /\ ret' = loaded
                 /\ UNCHANGED <<entries, by_word, children>>
            ELSE /\ entries' = loaded.val
                 /\ by_word' = BuildByWord(loaded.val, Len(loaded.val))
                 /\ children' = BuildChildren(loaded.val, Len(loaded.val))
                 /\ ret' = Returned("glossary", "Glossary")

\* The caller takes the result of a call; the Glossary is read-only.
Return ==
    /\ ~Ready
    /\ ret.kind # "raise" \/ call # "from_json_string"
    /\ call' = "return"
    /\ arg' = <<>>
    /\ ret' = Returned("none", "None")
    /\ UNCHANGED <<entries, by_word, children>>

LoadLookupGlossary ==
    /\ call = "Glossary"
    /\ \E items \in ItemSeqs(LookupSlugs, LookupDatas, MaxEntries) : from_json(items, FALSE)

LoadTreeGlossary ==
    /\ call = "Glossary"
    /\ \E items \in ItemSeqs(TreeSlugs, TreeDatas, MaxEntries) : from_json(items, FALSE)

LoadMetaGlossary ==
    /\ call = "Glossary"
    /\ \E data \in MetaDatas : from_json(<< <<<<"a">>, data>> >>, FALSE)

LoadDefsGlossary ==
    /\ call = "Glossary"
    /\ \E data \in DefsDatas : from_json(<< <<<<"a">>, data>> >>, FALSE)

LoadRefsGlossary ==
    /\ call = "Glossary"
    /\ \E items \in RefsItems : from_json(items, FALSE)

LoadHierarchyGlossary ==
    /\ call = "Glossary"
    /\ \E items \in HierarchyItems : from_json(items, FALSE)

LoadEmptySlugGlossary ==
    /\ call = "Glossary"
    /\ \E items \in EmptySlugItems : from_json(items, FALSE)

\* from_json_string(json_string) and from_json_string(json_string, validate=False)
LoadRawGlossary ==
    /\ call = "Glossary"
    /\ \E items \in ItemSeqs(RawSlugs, RawDatas, MaxEntries), validate \in BOOLEAN :
        from_json(items, validate)

GetItem ==
    /\ Ready
    /\ \E key \in Keys :
        /\ call' = "getitem"
        /\ arg' = key
        /\ ret' = getitem(entries, by_word, key)
        /\ UNCHANGED <<entries, by_word, children>>

Get ==
    /\ Ready
    /\ \E key \in Keys :
        /\ call' = "get"
        /\ arg' = key
        /\ ret' = get(entries, by_word, key)
        /\ UNCHANGED <<entries, by_word, children>>

Contains ==
    /\ Ready
    /\ \E key \in Keys :
        /\ call' = "contains"
        /\ arg' = key
        /\ ret' = Returned("bool", contains(entries, by_word, key))
        /\ UNCHANGED <<entries, by_word, children>>

ChildrenOf ==
    /\ Ready
    /\ \E slug \in ParentKeys :
        /\ call' = "children_of"
        /\ arg' = slug
        /\ ret' = Returned("list", children_of(entries, children, slug))
        /\ UNCHANGED <<entries, by_word, children>>

TopLevelEntries ==
    /\ Ready
    /\ call' = "top_level_entries"
    /\ arg' = <<>>
    /\ ret' = Returned("list", top_level_entries(entries))
    /\ UNCHANGED <<entries, by_word, children>>

Iter ==
    /\ Ready
    /\ call' = "iter"
    /\ arg' = <<>>
    /\ ret' = Returned("list", iter(entries))
    /\ UNCHANGED <<entries, by_word, children>>

LoadWordsGlossary ==
    /\ call = "Glossary"
    /\ \E items \in ItemSeqs(WordSlugs, WordDatas, MaxEntries) : from_json(items, FALSE)

GetNewWords ==
    /\ Ready
    /\ call' = "get_new_words"
    /\ arg' = <<>>
    /\ ret' = Returned("list", get_new_words(entries))
    /\ UNCHANGED <<entries, by_word, children>>

GetTheologicalWords ==
    /\ Ready
    /\ call' = "get_theological_words"
    /\ arg' = <<>>
    /\ ret' = Returned("list", get_theological_words(entries))
    /\ UNCHANGED <<entries, by_word, children>>

GetArchaicWords ==
    /\ Ready
    /\ call' = "get_archaic_words"
    /\ arg' = <<>>
    /\ ret' = Returned("list", get_archaic_words(entries))
    /\ UNCHANGED <<entries, by_word, children>>

GenerateArchaicWordsAdoc ==
    /\ Ready
    /\ call' = "generate_archaic_words_adoc"
    /\ arg' = <<>>
    /\ ret' = Returned("text", generate_archaic_words_adoc(entries))
    /\ UNCHANGED <<entries, by_word, children>>

\* format_archaic_words(words) with the default columns; every row is built
\* on a slice of words, a new list, so the appends of the padding leave the
\* caller's list (after) as it was passed
FormatArchaicWords ==
    /\ Ready
    /\ \E words \in WordLists :
        /\ call' = "format_archaic_words"
        /\ arg' = [words |-> words, after |-> words]
        /\ ret' = Returned("text", format_archaic_words(words, 4))
        /\ UNCHANGED <<entries, by_word, children>>

\* render_entry(entry, glossary) and render_entry(entry) on a loaded entry
RenderEntry ==
    /\ Ready
    /\ \E i \in 1..Len(entries), with_glossary \in BOOLEAN :
        /\ call' = "render_entry"
        /\ arg' = [slug |-> entries[i].slug, glossary |-> with_glossary]
        /\ ret' = render_entry(entries[i],
                               IF with_glossary
                               THEN Some(GlossaryOf(entries, by_word, children))
                               ELSE None,
                               0)
        /\ UNCHANGED <<entries, by_word, children>>

RenderGlossary ==
    /\ Ready
    /\ call' = "render_glossary"
    /\ arg' = <<>>
    /\ ret' = render_glossary(GlossaryOf(entries, by_word, children))
    /\ UNCHANGED <<entries, by_word, children>>

FormatText ==
    /\ Ready
    /\ \E text \in Texts :
        /\ call' = "format_text"
        /\ arg' = text
        /\ ret' = Returned("text", format_text(text))
        /\ UNCHANGED <<entries, by_word, children>>

\* lookups on a loaded glossary
NextLookup ==
    \/ LoadLookupGlossary
    \/ GetItem
    \/ Get
    \/ Contains
    \/ Return

SpecLookup == Init /\ [][NextLookup]_vars

\* the hierarchy and the iteration of a loaded glossary
NextTree ==
    \/ LoadTreeGlossary
    \/ ChildrenOf
    \/ TopLevelEntries
    \/ Iter
    \/ Return

SpecTree == Init /\ [][NextTree]_vars

\* rendering a loaded glossary and its entries
NextRender ==
    \/ LoadTreeGlossary
    \/ LoadMetaGlossary
    \/ LoadDefsGlossary
    \/ LoadRefsGlossary
    \/ LoadHierarchyGlossary
    \/ LoadEmptySlugGlossary
    \/ RenderEntry
    \/ RenderGlossary
    \/ Return

SpecRender == Init /\ [][NextRender]_vars

\* the Markup Rewriter on its own
NextFormat ==
    \/ FormatText
    \/ Return

SpecFormat == Init /\ [][NextFormat]_vars

\* loading raw records, and what the loaded glossary holds
NextLoad ==
    \/ LoadRawGlossary
    \/ Iter
    \/ Return

SpecLoad == Init /\ [][NextLoad]_vars

\* the word lists of a loaded glossary
NextWords ==
    \/ LoadWordsGlossary
    \/ GetNewWords
    \/ GetTheologicalWords
    \/ GetArchaicWords
    \/ GenerateArchaicWordsAdoc
    \/ Return

SpecWords == Init /\ [][NextWords]_vars

\* the table of a word list on its own
NextTable ==
    \/ FormatArchaicWords
    \/ Return

SpecTable == Init /\ [][NextTable]_vars

(***************************************************************************)
(* Properties of the Glossary index.                                       *)
(***************************************************************************)
Loaded == {entries[i] : i \in 1..Len(entries)}

WithSlug(slug) == CHOOSE e \in Loaded : e.slug = slug

\* The three matches of a lookup, each stated on the loaded entries.
HitsSlug(key) == \E e \in Loaded : e.slug = key
HitsWord(key) == StrLower(key) \in DOMAIN by_word
HitsNormalized(key) == \E e \in Loaded : e.slug = to_slug(key)
Matched(key) == HitsSlug(key) \/ HitsWord(key) \/ HitsNormalized(key)

FirstHit(key) ==
    IF HitsSlug(key) THEN WithSlug(key)
    ELSE IF HitsWord(key) THEN by_word[StrLower(key)]
    ELSE WithSlug(to_slug(key))

\* C1: a lookup (Glossary[key], Glossary.get(key)) returns the first hit of:
\* identifier equal to key, word index under lower(key), identifier equal to
\* to_slug(key); a key that is the identifier of A and the word of B gives A.
C1_LookupOrder ==
    (call \in {"getitem", "get"} /\ Matched(arg)) =>
        /\ ret.kind = "entry"
        /\ ret.val = FirstHit(arg)
        /\ \A A, B \in Loaded : (A.slug = arg /\ B.word = arg) => ret.val = A

C1_Witness ==
    /\ call = "getitem"
    /\ \E A, B \in Loaded :
        /\ A # B
        /\ A.slug = arg
        /\ B.word = arg
        /\ by_word[StrLower(arg)] = B
        /\ ret.kind = "entry"
        /\ ret.val = A

\* C2: a miss is distinguishable: get returns the default (None) and does not
\* raise, [] raises KeyError, `in` is False; on a hit get and [] return the
\* same entry and `in` is True.
C2_MissDistinguishable ==
    /\ call = "get" =>
        /\ ret.kind # "raise"
        /\ (ret.kind = "none") <=> ~Matched(arg)
        /\ Matched(arg) => ret = getitem(entries, by_word, arg)
    /\ call = "getitem" =>
        /\ (ret = Raised("KeyError")) <=> ~Matched(arg)
        /\ Matched(arg) => ret = get(entries, by_word, arg)
    /\ call = "contains" =>
        /\ ret.val <=> Matched(arg)
        /\ ret.val <=> (getitem(entries, by_word, arg).kind = "entry")

C2_Witness ==
    /\ call = "get"
    /\ entries # <<>>
    /\ arg # <<>>
    /\ ~Matched(arg)
    /\ ret.kind = "none"

\* C3: children_of(p) is exactly the entries whose parent equals p, in load
\* order, and empty when there is none.
C3_ChildrenExact ==
    call = "children_of" =>
        ret.val = SelectSeq(entries, LAMBDA e : e.parent = Some(arg))

Perms(n) == {p \in [1..n -> 1..n] : \A i, j \in 1..n : p[i] = p[j] => i = j}

\* C4: iteration yields every loaded entry once, in ascending identifier
\* order, and the same sequence for every load order of the same records.
C4_IterSorted ==
    call = "iter" =>
        /\ Len(ret.val) = Len(entries)
        /\ \A e \in Loaded : Cardinality({i \in 1..Len(ret.val) : ret.val[i] = e}) = 1
        /\ \A i, j \in 1..Len(ret.val) : i < j => StrLess(ret.val[i].slug, ret.val[j].slug)
        /\ \A p \in Perms(Len(entries)) :
            iter([i \in 1..Len(entries) |-> entries[p[i]]]) = ret.val

C4_Witness ==
    /\ call = "iter"
    /\ Len(entries) >= 2
    /\ ret.val # entries

(***************************************************************************)
(* Properties of the renderer.                                             *)
(***************************************************************************)
StartsWith(s, prefix) ==
    Len(s) >= Len(prefix) /\ SubSeq(s, 1, Len(prefix)) = prefix

EndsWith(s, suffix) ==
    Len(s) >= Len(suffix) /\ SubSeq(s, Len(s) - Len(suffix) + 1, Len(s)) = suffix

\* number of places where sub occurs in s
Occurrences(sub, s) ==
    Cardinality({i \in 1..(Len(s) - Len(sub) + 1) : SubSeq(s, i, i + Len(sub) - 1) = sub})

\* the lines of the returned text
OutLines == StrSplit(ret.val, "\n")

\* a line without the soft continuation it may end with
Uncontinued(line) ==
    IF EndsWith(line, <<" ", "+">>) THEN SubSeq(line, 1, Len(line) - 2) ELSE line

\* the entry a render_entry call was made on, and its glossary argument
Rendered == WithSlug(arg.slug)

GlossaryArg ==
    IF arg.glossary THEN Some(GlossaryOf(entries, by_word, children)) ELSE None

\* the top-level entries in ascending identifier order
TopLevel == {e \in Loaded : IsNone(e.parent)}

TopSorted ==
    CHOOSE s \in [1..Cardinality(TopLevel) -> TopLevel] :
        \A i, j \in 1..Cardinality(TopLevel) : i < j => StrLess(s[i].slug, s[j].slug)

Letter(e) == UpperChar(e.word[1])

HeadingDue(k) == k = 1 \/ Letter(TopSorted[k]) # Letter(TopSorted[k - 1])

\* the headings and top-level anchors the document must have, in order
RECURSIVE ExpectedMarkers(_)
ExpectedMarkers(k) ==
    IF k = 0 THEN <<>>
    ELSE ExpectedMarkers(k - 1)
             \o (IF HeadingDue(k) THEN <<<<"=", "=", " ">> \o <<Letter(TopSorted[k])>>>> ELSE <<>>)
             \o <<<<"[", "[">> \o TopSorted[k].slug \o <<"]", "]">>>>

IsMarker(line) == StartsWith(line, <<"=", "=", " ">>) \/ StartsWith(line, <<"[", "[">>)

\* the block of top-level entry k stands in the document right after its
\* anchor position
BlockAt(k) ==
    LET block == StrSplit(render_entry(TopSorted[k],
                              Some(GlossaryOf(entries, by_word, children)), 0).val, "\n")
    IN  \E pos \in 1..Len(OutLines) :
            /\ pos + Len(block) - 1 <= Len(OutLines)
            /\ SubSeq(OutLines, pos, pos + Len(block) - 1) = block
            /\ HeadingDue(k) =>
                   /\ pos > 2
                   /\ OutLines[pos - 1] = <<>>
                   /\ OutLines[pos - 2] = <<"=", "=", " ">> \o <<Letter(TopSorted[k])>>

\* C5: render_glossary emits the blocks of the top-level entries in ascending
\* identifier order, with a heading `== L` before a block exactly when the
\* uppercased first letter of the word differs from the previous top-level
\* entry's (always before the first), and no heading anywhere else.
C5_SectionsByLetter ==
    call = "render_glossary" =>
        /\ ret.kind = "text"
        /\ SelectSeq(OutLines, IsMarker) = ExpectedMarkers(Cardinality(TopLevel))
        /\ \A k \in 1..Cardinality(TopLevel) : BlockAt(k)

C5_Witness ==
    /\ call = "render_glossary"
    /\ ret.kind = "text"
    /\ Cardinality(TopLevel) = 2
    /\ entries[1] = TopSorted[2]
    /\ Letter(TopSorted[1]) = Letter(TopSorted[2])
    /\ Occurrences(<<"=", "=", " ">>, ret.val) = 1

\* the metadata cluster of an entry: one piece per present (non-empty)
\* field, in the fixed order
Piece(present, text) == IF present THEN <<" ">> \o text ELSE <<>>

ExpectedCluster(e) ==
    Piece(Truthy(e.plural), <<"(", "p", "l", ".", " ">> \o (IF Truthy(e.plural) THEN Val(e.plural) ELSE <<>>) \o <<")">>)
    \o Piece(Truthy(e.origin) /\ Truthy(e.latin_word),
             <<"(">> \o (IF Truthy(e.origin) THEN Val(e.origin) ELSE <<>>) \o <<" ", "_">>
                 \o (IF Truthy(e.latin_word) THEN StrUpper(Val(e.latin_word)) ELSE <<>>) \o <<"_", ")">>)
    \o Piece(Truthy(e.origin) /\ ~Truthy(e.latin_word),
             <<"(">> \o (IF Truthy(e.origin) THEN Val(e.origin) ELSE <<>>) \o <<")">>)
    \o Piece(Truthy(e.part_of_speech),
             <<"(">> \o (IF Truthy(e.part_of_speech) THEN Val(e.part_of_speech) ELSE <<>>) \o <<")">>)
    \o Piece(Truthy(e.pronunciation),
             <<"/">> \o (IF Truthy(e.pronunciation) THEN Val(e.pronunciation) ELSE <<>>) \o <<"/">>)
    \o Piece(Truthy(e.archaic_usage) \/ Truthy(e.theological_term), <<"[", "m", "i", "s", "l", "e", "a", "d", "i", "n", "g", "]">>)
    \o Piece(e.new_word, <<"[", "n", "e", "w", " ", "w", "o", "r", "d", "]">>)

\* C6: after the uppercased word the word line has one piece per present
\* field and nothing for an absent one, in the order plural, origin (with the
\* uppercased source word when there is one), part of speech, pronunciation,
\* [misleading], [new word]; a source word without an origin gives no piece;
\* [misleading] appears at most once.
C6_MetadataCluster ==
    (call = "render_entry" /\ ret.kind = "text") =>
        /\ StartsWith(OutLines[2],
               <<"*", "*">> \o StrUpper(Rendered.word) \o <<"*", "*">> \o ExpectedCluster(Rendered) \o <<" ", "=">>)
        /\ Occurrences(<<"[", "m", "i", "s", "l", "e", "a", "d", "i", "n", "g", "]">>, ret.val) <= 1
        /\ (IsNone(Rendered.origin) /\ ~IsNone(Rendered.latin_word)) =>
               Occurrences(StrUpper(Val(Rendered.latin_word)) \o <<"_">>, OutLines[2]) = 0

C6_Witness ==
    /\ call = "render_entry"
    /\ ret.kind = "text"
    /\ Truthy(Rendered.plural)
    /\ Truthy(Rendered.origin)
    /\ Truthy(Rendered.latin_word)
    /\ Truthy(Rendered.part_of_speech)
    /\ Truthy(Rendered.pronunciation)
    /\ Truthy(Rendered.archaic_usage)
    /\ Truthy(Rendered.theological_term)
    /\ Rendered.new_word
    /\ OutLines[2] = <<"*", "*", "A", "*", "*", " ", "(", "p", "l", ".", " ", "x", ")", " ", "(", "L", ".", " ", "_", "V", "_", ")", " ", "(", "n", ".", ")", " ", "/", "c", "/", " ", "[", "m", "i", "s", "l", "e", "a", "d", "i", "n", "g", "]", " ", "[", "n", "e", "w", " ", "w", "o", "r", "d", "]", " ", "=", " ", "d">>

Reasons == {<<"y">>, <<"y", "y">>}

OnlyTheological(e) == Truthy(e.theological_term) /\ IsNone(e.archaic_usage)

OnlyArchaic(e) == Truthy(e.archaic_usage) /\ IsNone(e.theological_term)

\* C7: two entries that differ only in having the theological flag or the
\* archaic flag (any non-empty reasons) render to the same text, which has
\* the tag [misleading] once and nothing of the reason.
C7_FlagCollapse ==
    (call = "render_entry" /\ ret.kind = "text"
        /\ (OnlyTheological(Rendered) \/ OnlyArchaic(Rendered))) =>
        /\ \A r \in Reasons :
            /\ render_entry([Rendered EXCEPT !.archaic_usage = Some(r),
                                             !.theological_term = None],
                            GlossaryArg, 0) = ret
            /\ render_entry([Rendered EXCEPT !.archaic_usage = None,
                                             !.theological_term = Some(r)],
                            GlossaryArg, 0) = ret
        /\ Occurrences(<<"[", "m", "i", "s", "l", "e", "a", "d", "i", "n", "g", "]">>, ret.val) = 1
        /\ Occurrences(<<"y">>, ret.val) = 0

C7_Witness ==
    /\ call = "render_entry"
    /\ ret.kind = "text"
    /\ OnlyTheological(Rendered)
    /\ Rendered.theological_term = Some(<<"y", "y">>)
    /\ Occurrences(<<"[", "m", "i", "s", "l", "e", "a", "d", "i", "n", "g", "]">>, ret.val) = 1

NoOptionalFields(e) ==
    /\ IsNone(e.origin) /\ IsNone(e.latin_word) /\ IsNone(e.part_of_speech)
    /\ IsNone(e.pronunciation) /\ IsNone(e.plural) /\ IsNone(e.archaic_usage)
    /\ IsNone(e.theological_term) /\ ~e.new_word /\ IsNone(e.opposite_slug)
    /\ e.also_translated = <<>> /\ e.see_also = <<>> /\ IsNone(e.parent)

\* the definitions of the rendered entry as they stand in the text: inline
\* after ` = ` when there is one, numbered from 1 after a word line ending in
\* `=` when there are two or more
DefinitionsShown ==
    LET defs == Rendered.definitions
    IN  /\ Len(defs) = 1 =>
               EndsWith(Uncontinued(OutLines[2]), <<" ", "=", " ">> \o format_text(defs[1]))
        /\ Len(defs) >= 2 =>
               /\ EndsWith(OutLines[2], <<" ", "=">>)
               /\ \A k \in 1..Len(defs) :
                      Uncontinued(OutLines[2 + k])
                          = IntToStr(k) \o <<".", " ">> \o format_text(defs[k])
               /\ \A k \in 1..(Len(defs) - 1) : OutLines[2 + k] = Uncontinued(OutLines[2 + k])

PlainWordLine ==
    <<"*", "*">> \o StrUpper(Rendered.word) \o <<"*", "*", " ", "=", " ">> \o format_text(Rendered.definitions[1])

\* no entry is rendered beneath the rendered entry
NoChildRendered == (~arg.glossary) \/ Rendered.slug \notin DOMAIN children

\* C8 as claimed: one definition is inline after `=`, and with no optional
\* fields the text after the anchor line is exactly `**WORD** = definition`;
\* two or more definitions are numbered lines after a word line ending in `=`.
C8_DefinitionsAsClaimed ==
    (call = "render_entry" /\ ret.kind = "text") =>
        /\ DefinitionsShown
        /\ (Len(Rendered.definitions) = 1 /\ NoOptionalFields(Rendered)) =>
               Tail(OutLines) = <<PlainWordLine>>

\* C8 amended: as claimed, the exact text `**WORD** = definition` being that
\* of an entry with one definition, no optional fields and no child entry
\* rendered beneath it; with children the word line ends with ` +` and their
\* indented blocks follow.
C8_Definitions ==
    (call = "render_entry" /\ ret.kind = "text") =>
        /\ DefinitionsShown
        /\ (Len(Rendered.definitions) = 1 /\ NoOptionalFields(Rendered)) =>
               IF NoChildRendered
               THEN Tail(OutLines) = <<PlainWordLine>>
               ELSE /\ OutLines[2] = PlainWordLine \o <<" ", "+">>
                    /\ \A k \in 3..Len(OutLines) : StartsWith(OutLines[k], <<"{", "n", "b", "s", "p", "}", "{", "n", "b", "s", "p", "}">>)

C8_Witness ==
    /\ call = "render_entry"
    /\ ret.kind = "text"
    /\ arg.glossary
    /\ Rendered.definitions = <<<<"_", "|", "a", "|", "_">>>>
    /\ NoOptionalFields(Rendered)
    /\ OutLines = <<<<"[", "[", "a", "]", "]">>, <<"*", "*", "A", "*", "*", " ", "=", " ", "_", "*", "*", "A", "*", "*", "_">>>>

\* the places where the italic substitution wrote its replacement, as flags
\* on the text it returns
RECURSIVE ItalicWritten(_, _)
ItalicWritten(s, i) ==
    IF i > Len(s) THEN <<>>
    ELSE LET j == ItalicMatch(s, i)
         IN  IF j # 0
             THEN [k \in 1..Len(italic_keyword_to_bold(SubSeq(s, i + 2, j - 1))) |-> TRUE]
                      \o ItalicWritten(s, j + 2)
             ELSE <<FALSE>> \o ItalicWritten(s, i + 1)

\* the spans the plain substitution matches
RECURSIVE PlainSpans(_, _)
PlainSpans(s, i) ==
    IF i > Len(s) THEN {}
    ELSE LET j == PlainMatch(s, i)
         IN  IF j # 0 THEN {<<i, j>>} \cup PlainSpans(s, j + 1)
             ELSE PlainSpans(s, i + 1)

\* the italic markers of a text, as the terms between their pipes
RECURSIVE ItalicTerms(_, _)
ItalicTerms(s, i) ==
    IF i > Len(s) THEN {}
    ELSE LET j == ItalicMatch(s, i)
         IN  IF j # 0 THEN {SubSeq(s, i + 2, j - 1)} \cup ItalicTerms(s, j + 2)
             ELSE ItalicTerms(s, i + 1)

\* C9: every italic marker becomes _**TERM**_ and every plain marker
\* **TERM**, the italic form first, and no marker is converted twice: what
\* the italic substitution wrote is never inside a plain marker converted
\* afterwards.
C9_NoDoubleConversion ==
    call = "format_text" =>
        LET mid == ItalicSub(arg, 1)
            written == ItalicWritten(arg, 1)
        IN  /\ \A term \in ItalicTerms(arg, 1) :
                   Occurrences(<<"_", "*", "*">> \o StrUpper(term) \o <<"*", "*", "_">>, ret.val) >= 1
            /\ \A span \in PlainSpans(mid, 1) :
                   \A k \in span[1]..span[2] : ~written[k]

\* the word a reference must show: that of the entry the lookup finds, the
\* humanized identifier when there is none or no glossary
ShownWord(slug) ==
    IF arg.glossary /\ Matched(slug) THEN FirstHit(slug).word
    ELSE StrReplace(slug, "-", " ")

\* position of the last definition line of the rendered entry
LastDefinitionLine ==
    IF Len(Rendered.definitions) = 1 THEN 2 ELSE 2 + Len(Rendered.definitions)

\* C10: the antonym and every related identifier are shown as the uppercased
\* word of the entry the lookup finds, or as the humanized identifier when
\* it finds none or no glossary is given; the related identifiers come in
\* stored order, comma-separated, each link targeting the identifier itself.
C10_References ==
    (call = "render_entry" /\ ret.kind = "text") =>
        LET e == Rendered
            opp == LastDefinitionLine + 1
            see == LastDefinitionLine + 1
                       + (IF has_opposite(e) THEN 1 ELSE 0)
                       + (IF has_also_translated(e) THEN 1 ELSE 0)
        IN  /\ has_opposite(e) =>
                   Uncontinued(OutLines[opp])
                       = <<"O", "p", "p", ".", " ", "*", "*">> \o StrUpper(ShownWord(Val(e.opposite_slug))) \o <<"*", "*">>
            /\ e.see_also # <<>> =>
                   Uncontinued(OutLines[see])
                       = <<"S", "e", "e", " ", "a", "l", "s", "o", ":", " ">>
                             \o StrJoin(<<",", " ">>,
                                    [i \in 1..Len(e.see_also) |->
                                        <<"x", "r", "e", "f", ":">> \o e.see_also[i] \o <<"[", "*", "*">>
                                            \o StrUpper(ShownWord(e.see_also[i])) \o <<"*", "*", "]">>])

C10_Witness ==
    /\ call = "render_entry"
    /\ ret.kind = "text"
    /\ arg.glossary
    /\ has_opposite(Rendered)
    /\ Matched(Val(Rendered.opposite_slug))
    /\ FirstHit(Val(Rendered.opposite_slug)).word # StrReplace(Val(Rendered.opposite_slug), "-", " ")
    /\ Len(Rendered.see_also) = 2
    /\ ~Matched(Rendered.see_also[1])
    /\ Matched(Rendered.see_also[2])
    /\ FirstHit(Rendered.see_also[2]).slug # Rendered.see_also[2]

(***************************************************************************)
(* Properties of rendering a hierarchy with dangling or cyclic references. *)
(***************************************************************************)
\* a reference of a loaded entry that finds no loaded entry: the antonym and
\* the related identifiers go through the lookup, the parent through the
\* identifiers
DanglingAntonym(e) == has_opposite(e) /\ ~Matched(Val(e.opposite_slug))

DanglingRelated(e) == \E i \in 1..Len(e.see_also) : ~Matched(e.see_also[i])

DanglingParent(e) == has_parent(e) /\ ~HitsSlug(Val(e.parent))

Dangling == \E e \in Loaded : DanglingAntonym(e) \/ DanglingRelated(e) \/ DanglingParent(e)

\* C11: in a glossary where an antonym, a related identifier or a parent
\* refers to no loaded entry, render_entry on each entry and render_glossary
\* return text and raise nothing.
C11_DanglingNeverAborts ==
    (call \in {"render_entry", "render_glossary"} /\ Dangling) => ret.kind = "text"

\* the loaded entries above e in the hierarchy the child index records
RECURSIVE Ancestors(_, _)
Ancestors(e, n) ==
    IF n = 0 \/ ~Truthy(e.parent) \/ ~HitsSlug(Val(e.parent)) THEN {}
    ELSE {WithSlug(Val(e.parent))} \cup Ancestors(WithSlug(Val(e.parent)), n - 1)

\* e is its own ancestor: its parent references form a cycle
OnCycle(e) == e \in Ancestors(e, Len(entries))

\* a rendering call raises only in the descent from an entry on a cycle
RaisesOnlyOnCycle ==
    /\ call = "render_glossary" => ret.kind = "text"
    /\ call = "render_entry" =>
           IF arg.glossary /\ OnCycle(Rendered)
           THEN ret = Raised("RecursionError")
           ELSE ret.kind = "text"

\* n indentation units
RECURSIVE Indent(_)
Indent(n) == IF n = 0 THEN <<>> ELSE <<"{", "n", "b", "s", "p", "}", "{", "n", "b", "s", "p", "}">> \o Indent(n - 1)

\* the children of the rendered entry and their own rendered blocks, as lines
RenderedKids == children_of(entries, children, Rendered.slug)

KidBlock(k) ==
    StrSplit(render_entry(RenderedKids[k], Some(GlossaryOf(entries, by_word, children)), 0).val, "\n")

\* the lines of the rendered entry itself: its block in the same glossary
\* without the child index
OwnLines ==
    StrSplit(render_entry(Rendered, Some(GlossaryOf(entries, by_word, EmptyDict)), 0).val, "\n")

\* the line of the text after which the block of child k starts
RECURSIVE KidStart(_)
KidStart(k) == IF k = 1 THEN Len(OwnLines) ELSE KidStart(k - 1) + Len(KidBlock(k - 1))

\* nesting level of e beneath top (0 for top itself, -1 when e is not beneath)
RECURSIVE LevelBelow(_, _, _)
LevelBelow(e, top, n) ==
    IF e = top THEN 0
    ELSE IF n = 0 \/ ~Truthy(e.parent) \/ ~HitsSlug(Val(e.parent)) THEN -1
    ELSE LET above == LevelBelow(WithSlug(Val(e.parent)), top, n - 1)
         IN  IF above < 0 THEN -1 ELSE above + 1

\* C12: the block of an entry with children is its own lines followed by the
\* complete block of every child in children_of order; a child block starts
\* with the child's anchor and word line, each of its lines has one more
\* indentation unit ({nbsp}{nbsp}) per nesting level, and the line before a
\* child block ends with the soft continuation ` +`.
C12_Hierarchy ==
    (call = "render_entry" /\ ret.kind = "text" /\ arg.glossary) =>
        LET n == Len(RenderedKids)
        IN  /\ Len(OutLines) = KidStart(n + 1)
            /\ \A i \in 1..Len(OwnLines) :
                   OutLines[i] = OwnLines[i] \o (IF i = Len(OwnLines) /\ n > 0 THEN <<" ", "+">> ELSE <<>>)
            /\ \A k \in 1..n :
                   /\ EndsWith(OutLines[KidStart(k)], <<" ", "+">>)
                   /\ OutLines[KidStart(k) + 1] = Indent(1) \o <<"[", "[">> \o RenderedKids[k].slug \o <<"]", "]">>
                   /\ StartsWith(OutLines[KidStart(k) + 2],
                          Indent(1) \o <<"*", "*">> \o StrUpper(RenderedKids[k].word) \o <<"*", "*">>)
                   /\ \A j \in 1..Len(KidBlock(k)) :
                          OutLines[KidStart(k) + j]
                              = Indent(1) \o KidBlock(k)[j]
                                    \o (IF j = Len(KidBlock(k)) /\ k < n THEN <<" ", "+">> ELSE <<>>)
            /\ \A e \in Loaded :
                   LET level == LevelBelow(e, Rendered, Len(entries))
                   IN  level >= 0 =>
                           \E i \in 1..(Len(OutLines) - 1) :
                               /\ OutLines[i] = Indent(level) \o <<"[", "[">> \o e.slug \o <<"]", "]">>
                               /\ StartsWith(OutLines[i + 1],
                                      Indent(level) \o <<"*", "*">> \o StrUpper(e.word) \o <<"*", "*">>)

C12_Witness ==
    /\ call = "render_entry"
    /\ arg.glossary
    /\ ret.kind = "text"
    /\ OutLines = <<<<"[", "[", "a", "]", "]">>,
                    <<"*", "*", "A", "*", "*", " ", "=", " ", "d", " ", "+">>,
                    <<"{", "n", "b", "s", "p", "}", "{", "n", "b", "s", "p", "}", "[", "[", "d", "]", "]">>,
                    <<"{", "n", "b", "s", "p", "}", "{", "n", "b", "s", "p", "}", "*", "*", "D", "*", "*", " ", "=", " ", "d", " ", "+">>,
                    <<"{", "n", "b", "s", "p", "}", "{", "n", "b", "s", "p", "}", "[", "[", "b", "]", "]">>,
                    <<"{", "n", "b", "s", "p", "}", "{", "n", "b", "s", "p", "}", "*", "*", "B", "*", "*", " ", "=", " ", "d", " ", "+">>,
                    <<"{", "n", "b", "s", "p", "}", "{", "n", "b", "s", "p", "}", "{", "n", "b", "s", "p", "}", "{", "n", "b", "s", "p", "}", "[", "[", "c", "]", "]">>,
                    <<"{", "n", "b", "s", "p", "}", "{", "n", "b", "s", "p", "}", "{", "n", "b", "s", "p", "}", "{", "n", "b", "s", "p", "}", "*", "*", "C", "*", "*", " ", "=", " ", "d">>>>

(***************************************************************************)
(* Properties of loading.                                                  *)
(***************************************************************************)
\* a record of the load just made lacks the required 'definitions'
LacksDefinitions ==
    \E i \in 1..Len(arg.items) : IsNone(arg.items[i][2].definitions)

\* C13: a load of records of which one lacks `definitions` fails, with or
\* without schema validation, and returns no Glossary: none of the records is
\* loaded and nothing can be called on the result.  A load that returns holds
\* exactly one entry per record identifier, with the record's definitions,
\* and a load without validation of records that all have `definitions`
\* returns.
C13_LoadAllOrNothing ==
    call = "from_json_string" =>
        /\ ret.kind \in {"glossary", "raise"}
        /\ LacksDefinitions =>
               /\ ret.kind = "raise"
               /\ entries = <<>>
               /\ ~Ready
        /\ ret.kind = "glossary" =>
               /\ Len(entries) = Len(arg.items)
               /\ Cardinality(SlugsOf(entries)) = Len(arg.items)
               /\ \A i \in 1..Len(arg.items) :
                      /\ entries[i].slug = arg.items[i][1]
                      /\ entries[i].definitions = Val(arg.items[i][2].definitions)
        /\ (~LacksDefinitions /\ ~arg.validate) => ret.kind = "glossary"

C13_Witness ==
    /\ call = "from_json_string"
    /\ ~arg.validate
    /\ Len(arg.items) = 2
    /\ ~IsNone(arg.items[1][2].definitions)
    /\ IsNone(arg.items[2][2].definitions)
    /\ ret = Raised("KeyError")
    /\ entries = <<>>

(***************************************************************************)
(* Properties of the word lists.                                           *)
(***************************************************************************)
\* the elements of a list
Elements(list) == {list[i] : i \in 1..Len(list)}

\* a list without repetition in ascending order
Ascending(list) == \A i, j \in 1..Len(list) : i < j => StrLess(list[i], list[j])

\* C14: get_new_words returns exactly the uppercased words of the entries
\* marked as new word, each once even when entries share it, in ascending
\* order; a word of an unmarked entry is there only when a marked entry has
\* the same uppercased word.
C14_NewWords ==
    call = "get_new_words" =>
        /\ Elements(ret.val) = {StrUpper(e.word) : e \in {x \in Loaded : x.new_word}}
        /\ Ascending(ret.val)
        /\ \A e \in Loaded :
               StrUpper(e.word) \in Elements(ret.val) =>
                   \E f \in Loaded : f.new_word /\ StrUpper(f.word) = StrUpper(e.word)

C14_Witness ==
    /\ call = "get_new_words"
    /\ \E e, f \in Loaded :
        /\ e # f
        /\ e.new_word
        /\ f.new_word
        /\ e.word # f.word
        /\ StrUpper(e.word) = StrUpper(f.word)
    /\ Len(ret.val) = 1

\* the cells of the table rows of a text: the lines that start with a pipe
\* and are not a table delimiter, split at the pipes
TableRows(text) ==
    SelectSeq(StrSplit(text, "\n"),
              LAMBDA line : StartsWith(line, <<"|">>) /\ line # <<"|", "=", "=", "=">>)

TableCells(text) ==
    UNION {{RStrip(StrSplit(TableRows(text)[r], "|")[c]) :
                c \in 2..Len(StrSplit(TableRows(text)[r], "|"))} :
           r \in 1..Len(TableRows(text))}

\* the uppercased words of the entries with archaic_usage or theological_term
MisleadingWords ==
    {StrUpper(e.word) : e \in {x \in Loaded : Truthy(x.archaic_usage) \/ Truthy(x.theological_term)}}

\* C15: the word list of the archaic-words document has the uppercased word
\* of every entry with archaic_usage or theological_term set, an entry with
\* theological_term alone included, each once and sorted; the document shows
\* each of them in a cell of its table.
C15_ArchaicIncludesTheological ==
    /\ call = "get_archaic_words" =>
           /\ Elements(ret.val) = MisleadingWords
           /\ Ascending(ret.val)
    /\ call = "generate_archaic_words_adoc" =>
           MisleadingWords \subseteq TableCells(ret.val)

C17_RenderingTerminates ==
    call \in {"render_entry", "render_glossary"} => ret # Raised("RecursionError")

\* the parent references of e lead through loaded entries to an entry
\* without parent
RECURSIVE LeadsToTop(_, _)
LeadsToTop(e, n) ==
    IF ~has_parent(e) THEN TRUE
    ELSE IF n = 0 \/ ~HitsSlug(Val(e.parent)) THEN FALSE
    ELSE LeadsToTop(WithSlug(Val(e.parent)), n - 1)

\* how often the anchor of e stands in the returned text
AnchorCount(e) == Occurrences(<<"[", "[">> \o e.slug \o <<"]", "]">>, ret.val)

\* C18: in the document of render_glossary no anchor stands more than once;
\* the anchor of an entry stands exactly once when the entry is top-level or
\* its parent references lead through loaded entries to a top-level entry,
\* and is absent only when they dangle or cycle.
C18_AnchorsOnce ==
    (call = "render_glossary" /\ ret.kind = "text") =>
        \A e \in Loaded :
            AnchorCount(e) = IF LeadsToTop(e, Len(entries)) THEN 1 ELSE 0

(***************************************************************************)
(* Properties of the Markup Rewriter applied again.                        *)
(***************************************************************************)
\* C19: format_text is idempotent: a second pass over the text one pass
\* returned rewrites nothing, for every text, adjacent, empty and unbalanced
\* pipe markers included.
C19_Idempotent ==
    call = "format_text" => format_text(ret.val) = ret.val

====
